---------------------------- MODULE Spec2Model ----------------------------
(***************************************************************************)
(* Model of src/homework.py: a bot that polls the homework-status API,     *)
(* turns the first homework of the answer into a notification text, sends  *)
(* it to a Telegram chat and sleeps RETRY_PERIOD before the next poll.     *)
(*                                                                         *)
(* Texts.  The program's literals are Russian; the module keeps them as    *)
(* ASCII renderings (the parser accepts ASCII strings only).  A text is a  *)
(* sequence of pieces, so that an f-string is the concatenation of its     *)
(* literal parts and its interpolated values, and two texts are equal      *)
(* exactly when the program's strings are.                                 *)
(*                                                                         *)
(* JSON values.  A decoded payload is a record with a "type" field (the    *)
(* Python type of the value) and, for a dict, one pair of fields per key   *)
(* the program looks at: has_k (k in dict) and k (dict[k]).  The fields of *)
(* an absent key hold a fixed filler, so that a value has one record.      *)
(***************************************************************************)
EXTENDS Integers, Sequences, FiniteSets, TLC

(***************************************************************************)
(* Bounds of the model.                                                    *)
(***************************************************************************)
\* the longest 'homeworks' list a payload carries
MaxItems == 2
\* timestamps and 'current_date' values range over 0..MaxDate
MaxDate == 1

(***************************************************************************)
(* Module constants of homework.py.                                        *)
(***************************************************************************)
\* RETRY_PERIOD = 600
RETRY_PERIOD == 600

\* HTTPStatus.OK
HTTP_OK == 200

\* TOKENS = ('PRACTICUM_TOKEN', 'TELEGRAM_CHAT_ID', 'TELEGRAM_TOKEN')
TOKENS == <<"PRACTICUM_TOKEN", "TELEGRAM_CHAT_ID", "TELEGRAM_TOKEN">>

\* os.getenv(name): None when the variable is absent, else its string
None == "<None>"

\* the values an environment variable is given in the model
EnvValues == {None, "", "secret"}

\* HOMEWORK_VERDICTS: the keys
VerdictKeys == {"approved", "reviewing", "rejected"}

\* HOMEWORK_VERDICTS.get(status): the phrase, or None for any other status
HOMEWORK_VERDICTS(status) ==
    CASE status = "approved"  -> "Work checked: the reviewer liked everything. Hooray!"
      [] status = "reviewing" -> "Work taken for review by the reviewer."
      [] status = "rejected"  -> "Work checked: the reviewer has remarks."
      [] OTHER -> None

(***************************************************************************)
(* Python helpers.                                                         *)
(***************************************************************************)
\* sep.join(seq), as pieces
RECURSIVE Join(_, _)
Join(seq, sep) ==
    IF seq = <<>> THEN <<>>
    ELSE IF Len(seq) = 1 THEN <<seq[1]>>
    ELSE <<seq[1], sep>> \o Join(Tail(seq), sep)

\* variant of Truthy: 'x is not None', which takes '' for a value
Truthy_NotNone(x) == x # None

\* bool(x) of a string or None: '' and None are falsy
Truthy(x) == x # None /\ x # ""

\* 'a or b': a when a is truthy, else b.  Exception classes are truthy.
PyOr(a, b) == IF Truthy(a) THEN a ELSE b

\* the direct base classes of an exception class, cls.__bases__ (none above
\* Exception).  requests.exceptions.JSONDecodeError has two: InvalidJSONError
\* and json.JSONDecodeError, so it is a RequestException and a ValueError.
BaseOf(cls) ==
    CASE cls = "ApiTelegramException"    -> {"ApiException"}
      [] cls = "ApiException"            -> {"Exception"}
      [] cls = "RequestsConnectionError" -> {"RequestException"}
      [] cls = "JSONDecodeError"         -> {"InvalidJSONError", "json.JSONDecodeError"}
      [] cls = "InvalidJSONError"        -> {"RequestException"}
      [] cls = "json.JSONDecodeError"    -> {"ValueError"}
      [] cls = "RequestException"        -> {"OSError"}
      [] cls = "ConnectionError"         -> {"OSError"}
      [] cls = "OSError"                 -> {"Exception"}
      [] cls = "StatusError"             -> {"Exception"}
      [] cls = "TypeError"               -> {"Exception"}
      [] cls = "KeyError"                -> {"LookupError"}
      [] cls = "LookupError"             -> {"Exception"}
      [] cls = "ValueError"              -> {"Exception"}
      [] cls = "AttributeError"          -> {"Exception"}
      [] OTHER -> {}

\* issubclass(cls, base): base is cls or an ancestor along any base
RECURSIVE IsSubclass(_, _)
IsSubclass(cls, base) ==
    \/ cls = base
    \/ \E b \in BaseOf(cls) : IsSubclass(b, base)

\* a raised exception: its class and str(error)
Raise(cls, text) == [ok |-> FALSE, exc |-> cls, text |-> text, value |-> <<>>]

\* a normal return
Return(v) == [ok |-> TRUE, exc |-> "", text |-> <<>>, value |-> v]

(***************************************************************************)
(* JSON values of the model.                                               *)
(***************************************************************************)
\* the filler of an absent key
Absent == "<absent>"

\* a homework that is a JSON object
DictItem(has_name, has_status, status) ==
    [type |-> "dict",
     has_homework_name |-> has_name,
     homework_name |-> IF has_name THEN "hw1" ELSE Absent,
     has_status |-> has_status,
     status |-> IF has_status THEN status ELSE Absent]

\* a homework that is a JSON string
StrItem ==
    [type |-> "str", has_homework_name |-> FALSE, homework_name |-> Absent,
     has_status |-> FALSE, status |-> Absent]

\* a JSON array in the place of a status: a Python list, which is not
\* hashable
ListValue == "[]"

\* the status values the server sends in the model: the three known ones,
\* another string, null and an array
Statuses == VerdictKeys \cup {"unknown", None, ListValue}

\* hash(value) succeeds: strings and None are hashable, a list is not
Hashable(value) == value # ListValue

\* f'{value}'
PyStr(value) == IF value = None THEN "None" ELSE value

\* the elements of a 'homeworks' list
Items ==
    {StrItem}
    \cup {DictItem(n, FALSE, Absent) : n \in BOOLEAN}
    \cup {DictItem(n, TRUE, s) : n \in BOOLEAN, s \in Statuses}

\* lists of at most n elements of S
SeqUpTo(S, n) == UNION {[1..k -> S] : k \in 0..n}

\* the values of the 'homeworks' key: a list, or a value of another type
HomeworksValues ==
    {[type |-> "list", items |-> l] : l \in SeqUpTo(Items, MaxItems)}
    \cup {[type |-> t, items |-> <<>>] : t \in {"dict", "NoneType"}}

\* the values a timestamp or 'current_date' takes
Dates == 0..MaxDate

\* a payload that is a JSON object
DictPayload(has_hw, hw, has_cd, cd) ==
    [type |-> "dict",
     has_homeworks |-> has_hw,
     homeworks |-> IF has_hw THEN hw ELSE [type |-> "NoneType", items |-> <<>>],
     has_current_date |-> has_cd,
     current_date |-> IF has_cd THEN cd ELSE 0]

\* a payload of another JSON type
OtherPayload(t) ==
    [type |-> t, has_homeworks |-> FALSE,
     homeworks |-> [type |-> "NoneType", items |-> <<>>],
     has_current_date |-> FALSE, current_date |-> 0]

\* what response.json() returns in the model
Payloads ==
    {OtherPayload(t) : t \in {"list", "NoneType"}}
    \cup {DictPayload(FALSE, [type |-> "NoneType", items |-> <<>>], FALSE, 0)}
    \cup {DictPayload(FALSE, [type |-> "NoneType", items |-> <<>>], TRUE, d) : d \in Dates}
    \cup {DictPayload(TRUE, h, FALSE, 0) : h \in HomeworksValues}
    \cup {DictPayload(TRUE, h, TRUE, d) : h \in HomeworksValues, d \in Dates}

\* a local that holds nothing yet in the current cycle
NoPayload == OtherPayload("<unset>")

(***************************************************************************)
(* The functions of homework.py, as operators on values.                   *)
(***************************************************************************)
\* check_tokens(), lines 62-72: the names of TOKENS whose value is falsy,
\* in the order of TOKENS; raises ValueError when there is one
missing_tokens(environ) == SelectSeq(TOKENS, LAMBDA token : ~Truthy(environ[token]))

check_tokens(environ) ==
    IF missing_tokens(environ) # <<>>
    THEN Raise("ValueError",
               <<"('Missing environment variables:', '">>
               \o Join(missing_tokens(environ), ", ") \o <<"')">>)
    ELSE Return(<<>>)

\* what the HTTP request of get_api_answer meets: requests.get raises, or
\* answers with a status code and a body that decodes to JSON or does not
HttpOutcomes ==
    {[raised |-> TRUE, status_code |-> 0, decodes |-> FALSE, json |-> NoPayload]}
    \cup {[raised |-> FALSE, status_code |-> 503, decodes |-> FALSE, json |-> NoPayload]}
    \cup {[raised |-> FALSE, status_code |-> HTTP_OK, decodes |-> FALSE, json |-> NoPayload]}
    \cup {[raised |-> FALSE, status_code |-> HTTP_OK, decodes |-> TRUE, json |-> p] :
             p \in Payloads}

\* f'{response.status_code}'
CodeText(code) == IF code = HTTP_OK THEN "200" ELSE "503"

\* variant of get_api_answer: the status code is not tested
get_api_answer_NoStatusCheck(ts, http) ==
    IF http.raised
    THEN Raise("ConnectionError", <<"An error occurred: ", "RequestException", ".">>)
    ELSE IF ~http.decodes
    THEN Raise("JSONDecodeError", <<"Expecting value">>)
    ELSE Return(http.json)

\* get_api_answer(timestamp), lines 85-108, given what the request meets
get_api_answer(ts, http) ==
    IF http.raised
    THEN Raise("ConnectionError", <<"An error occurred: ", "RequestException", ".">>)
    ELSE IF http.status_code # HTTP_OK
    THEN Raise("StatusError", <<"Request ended with code: ", CodeText(http.status_code), ".">>)
    ELSE IF ~http.decodes
    THEN Raise("JSONDecodeError", <<"Expecting value">>)
    ELSE Return(http.json)

\* variant of check_response: response.get('homeworks', []), which takes a
\* missing key for an empty list
check_response_default(resp) ==
    IF resp.type # "dict"
    THEN Raise("TypeError",
               <<"('Data type does not match the expected format.', \"Received: <class '",
                 resp.type, "'>.\", 'Expected: dict.')">>)
    ELSE IF ~resp.has_homeworks
    THEN Return(<<>>)
    ELSE IF resp.homeworks.type # "list"
    THEN Raise("TypeError",
               <<"(\"Value of key homeworks does not match the expected format.Received: <class '",
                 resp.homeworks.type, "'>.\", 'Expected: list.')">>)
    ELSE Return(resp.homeworks.items)

\* check_response(response), lines 111-140
check_response(resp) ==
    IF resp.type # "dict"
    THEN Raise("TypeError",
               <<"('Data type does not match the expected format.', \"Received: <class '",
                 resp.type, "'>.\", 'Expected: dict.')">>)
    ELSE IF ~resp.has_homeworks
    THEN Raise("KeyError", <<"'", "Missing key with the list of homeworks.", "'">>)
    ELSE IF resp.homeworks.type # "list"
    THEN Raise("TypeError",
               <<"(\"Value of key homeworks does not match the expected format.Received: <class '",
                 resp.homeworks.type, "'>.\", 'Expected: list.')">>)
    ELSE Return(resp.homeworks.items)

\* homework.get(key): the value, or None when the key is absent
ItemGet(homework, key) ==
    IF key = "homework_name"
    THEN (IF homework.has_homework_name THEN homework.homework_name ELSE None)
    ELSE (IF homework.has_status THEN homework.status ELSE None)

\* key in homework
ItemHas(homework, key) ==
    IF key = "homework_name" THEN homework.has_homework_name ELSE homework.has_status

\* the text parse_status returns, line 163
StatusMessage(homework_name, verdict) ==
    <<"Changed review status of work \"", homework_name, "\". ", verdict>>

\* parse_status(homework), lines 143-163.  The lookup of line 149 runs
\* before the test of the keys (lines 151-154) and hashes the status: a
\* status that is not hashable raises TypeError there.
parse_status(homework) ==
    IF homework.type # "dict"
    THEN Raise("AttributeError",
               <<"'", homework.type, "' object has no attribute 'get'">>)
    ELSE
      LET homework_name == ItemGet(homework, "homework_name")
          status == ItemGet(homework, "status")
          verdict == HOMEWORK_VERDICTS(status)
          missing_keys == SelectSeq(<<"homework_name", "status">>,
                                    LAMBDA key : ~ItemHas(homework, key))
      IN IF ~Hashable(status)
         THEN Raise("TypeError", <<"unhashable type: 'list'">>)
         ELSE IF missing_keys # <<>>
         THEN Raise("KeyError",
                    <<"'", "Missing keys: ">> \o Join(missing_keys, ", ") \o <<".", "'">>)
         ELSE IF verdict = None
         THEN Raise("ValueError",
                    <<"Status is not in HOMEWORKS_VERDICTS. Status: ", PyStr(status), ".">>)
         ELSE Return(StatusMessage(homework_name, verdict))

\* variant of FailureMessage: the message without the error
FailureMessage_NoText(text) == <<"Program failure: ">>

\* the message of the 'except Exception' handler, line 193
FailureMessage(text) == <<"Program failure: ">> \o text

\* variant of CurrentDateOr: response.get('current_date', 0)
CurrentDateOr_Zero(resp, default) ==
    IF resp.has_current_date THEN resp.current_date ELSE 0

\* variant of CurrentDateOr: max(timestamp, response.get('current_date', timestamp))
CurrentDateOr_Max(resp, default) ==
    IF resp.has_current_date /\ resp.current_date > default
    THEN resp.current_date ELSE default

\* response.get('current_date', timestamp), line 187
CurrentDateOr(resp, default) ==
    IF resp.has_current_date THEN resp.current_date ELSE default

\* variant of TelegramHandlerClass: the operands the other way round
TelegramHandlerClass_Swapped == PyOr("RequestException", "ApiException")

\* the class the first except clause names, line 189: the value of
\* 'apihelper.ApiException or requests.exceptions.RequestException'
TelegramHandlerClass == PyOr("ApiException", "RequestException")

\* variant of CaughtByFirstClause: the clause names the tuple of the two
\* classes, 'except (ApiException, RequestException)'
CaughtByFirstClause_Tuple(cls) ==
    IsSubclass(cls, "ApiException") \/ IsSubclass(cls, "RequestException")

\* the first except clause catches an exception of class cls, line 189
CaughtByFirstClause(cls) == IsSubclass(cls, TelegramHandlerClass)

\* what bot.send_message does with a message: returns ("") or raises
SendOutcomes == {"", "ApiTelegramException", "RequestsConnectionError"}

\* send_message(bot, message), lines 76-82, given what bot.send_message
\* does: there is no try around the call, so what it raises is raised.
\* The text of such an error is rendered by the name of its class.
send_message(outcome) ==
    IF outcome = "" THEN Return(<<>>) ELSE Raise(outcome, <<outcome>>)

\* variant of AfterContinue: 'continue' outside the try, straight to the
\* next iteration
AfterContinue_SkipFinally == "get_api_answer"

\* where 'continue' (line 182) goes: it leaves a try that has a finally
\* clause, so the finally clause runs before the next iteration
AfterContinue == "finally"

(***************************************************************************)
(* The state of main().                                                    *)
(***************************************************************************)
VARIABLES
    environ,     \* the three module globals read from the environment
    pc,          \* the statement of main() that runs next
    timestamp,   \* the local 'timestamp' (0 until line 172 assigns it)
    response,    \* the local 'response' of the current cycle
    homeworks,   \* the local 'homeworks' of the current cycle
    message,     \* the local 'message' of the current cycle
    error,       \* the exception raised in the current cycle, and by what
    from_date,   \* 'from_date' of the last request made, -1 before the first
    sleeps,      \* the time.sleep calls since the last request, by duration
    sent,        \* the calls of bot.send_message in the current cycle
    last_cycle,  \* of the last cycle that ended: the status text it sent,
                 \* whether that call returned, and what raised in it
    critical,    \* the records logged at level CRITICAL
    met,         \* what the request of the current cycle met
    fetched,     \* the calls of get_api_answer since the last sleep
    parsed       \* the arguments of the calls of parse_status in the
                 \* current cycle

vars == <<environ, pc, timestamp, response, homeworks, message, error,
          from_date, sleeps, sent, last_cycle, critical, met, fetched, parsed>>

\* no request was made in the cycle yet
NoHttp == [raised |-> FALSE, status_code |-> 0, decodes |-> FALSE, json |-> NoPayload]

\* no exception was raised in the cycle
NoRaise == [by |-> "", exc |-> "", text |-> <<>>]

\* an exception raised by function 'by'
Raised(by, r) == [by |-> by, exc |-> r.exc, text |-> r.text]

\* one call of bot.send_message: its text, the line of main() that made
\* it ("status": line 185, "failure": line 197) and what it raised
Call(text, at, outcome) == [text |-> text, at |-> at, raised |-> outcome]

\* the calls a cycle made from line 185
StatusCalls(calls) == SelectSeq(calls, LAMBDA c : c.at = "status")

\* what is remembered of a cycle once it has ended
Summary(calls, err) ==
    IF StatusCalls(calls) = <<>>
    THEN [text |-> <<>>, delivered |-> FALSE, by |-> err.by]
    ELSE [text |-> StatusCalls(calls)[1].text,
          delivered |-> StatusCalls(calls)[1].raised = "",
          by |-> err.by]

\* the module is imported: the globals hold what os.getenv returned
Init ==
    /\ environ \in [{TOKENS[i] : i \in 1..Len(TOKENS)} -> EnvValues]
    /\ pc = "main"
    /\ timestamp = 0
    /\ response = NoPayload
    /\ homeworks = <<>>
    /\ message = <<>>
    /\ error = NoRaise
    /\ from_date = -1
    /\ sleeps = <<>>
    /\ sent = <<>>
    /\ last_cycle = Summary(<<>>, NoRaise)
    /\ critical = <<>>
    /\ met = NoHttp
    /\ fetched = 0
    /\ parsed = <<>>

(***************************************************************************)
(* The statements of main(), lines 166-200.                                *)
(***************************************************************************)
\* lines 168-172: check_tokens(), then the bot and the first timestamp.
\* A ValueError raised here is caught by nothing: the process ends.
Start ==
    /\ pc = "main"
    /\ LET r == check_tokens(environ)
       IN IF r.ok
          THEN /\ \E now \in Dates : timestamp' = now
               /\ pc' = "get_api_answer"
               /\ UNCHANGED <<error, critical>>
          ELSE /\ critical' = Append(critical, r.text)
               /\ error' = Raised("check_tokens", r)
               /\ pc' = "exited"
               /\ UNCHANGED timestamp
    /\ UNCHANGED <<environ, response, homeworks, message, from_date, sleeps,
                   sent, last_cycle, met, fetched, parsed>>

\* variant of GetApiAnswer: a request that raised is made again at once
GetApiAnswer_Retry ==
    /\ pc = "get_api_answer"
    /\ \E http \in HttpOutcomes :
          LET r == get_api_answer(timestamp, http)
          IN /\ met' = http
             /\ IF r.ok
                THEN /\ response' = r.value
                     /\ pc' = "check_response"
                     /\ UNCHANGED error
                ELSE /\ error' = Raised("get_api_answer", r)
                     /\ pc' = IF fetched = 0 THEN "get_api_answer" ELSE "except"
                     /\ UNCHANGED response
    /\ from_date' = timestamp
    /\ sleeps' = <<>>
    /\ fetched' = fetched + 1
    /\ UNCHANGED <<environ, timestamp, homeworks, message, sent, last_cycle,
                   critical, parsed>>

\* line 176: response = get_api_answer(timestamp)
GetApiAnswer ==
    /\ pc = "get_api_answer"
    /\ \E http \in HttpOutcomes :
          LET r == get_api_answer(timestamp, http)
          IN /\ met' = http
             /\ IF r.ok
                THEN /\ response' = r.value
                     /\ pc' = "check_response"
                     /\ UNCHANGED error
                ELSE /\ error' = Raised("get_api_answer", r)
                     /\ pc' = "except"
                     /\ UNCHANGED response
    /\ from_date' = timestamp
    /\ sleeps' = <<>>
    /\ fetched' = fetched + 1
    /\ UNCHANGED <<environ, timestamp, homeworks, message, sent, last_cycle,
                   critical, parsed>>

\* variant of CheckResponse: the timestamp is advanced as soon as the
\* response is validated
CheckResponse_AdvanceEarly ==
    /\ pc = "check_response"
    /\ LET r == check_response(response)
       IN IF r.ok
          THEN /\ homeworks' = r.value
               /\ pc' = IF r.value = <<>> THEN AfterContinue ELSE "parse_status"
               /\ timestamp' = CurrentDateOr(response, timestamp)
               /\ UNCHANGED error
          ELSE /\ error' = Raised("check_response", r)
               /\ pc' = "except"
               /\ UNCHANGED <<homeworks, timestamp>>
    /\ UNCHANGED <<environ, response, message, from_date, sleeps,
                   sent, last_cycle, critical, met, fetched, parsed>>

\* variant of CheckResponse: the list is not tested for being empty
CheckResponse_NoEmptyTest ==
    /\ pc = "check_response"
    /\ LET r == check_response(response)
       IN IF r.ok
          THEN /\ homeworks' = r.value
               /\ pc' = "parse_status"
               /\ UNCHANGED error
          ELSE /\ error' = Raised("check_response", r)
               /\ pc' = "except"
               /\ UNCHANGED homeworks
    /\ UNCHANGED <<environ, timestamp, response, message, from_date, sleeps,
                   sent, last_cycle, critical, met, fetched, parsed>>

\* lines 177-182: homeworks = check_response(response), and the
\* 'continue' of an empty list
CheckResponse ==
    /\ pc = "check_response"
    /\ LET r == check_response(response)
       IN IF r.ok
          THEN /\ homeworks' = r.value
               /\ pc' = IF r.value = <<>> THEN AfterContinue ELSE "parse_status"
               /\ UNCHANGED error
          ELSE /\ error' = Raised("check_response", r)
               /\ pc' = "except"
               /\ UNCHANGED homeworks
    /\ UNCHANGED <<environ, timestamp, response, message, from_date, sleeps,
                   sent, last_cycle, critical, met, fetched, parsed>>

\* variant of ParseStatus: parse_status(homeworks[-1]), the last homework
ParseStatus_Last ==
    /\ pc = "parse_status"
    /\ LET r == parse_status(homeworks[Len(homeworks)])
       IN IF r.ok
          THEN /\ message' = r.value
               /\ pc' = "send_message"
               /\ UNCHANGED error
          ELSE /\ error' = Raised("parse_status", r)
               /\ pc' = "except"
               /\ UNCHANGED message
    /\ parsed' = Append(parsed, homeworks[Len(homeworks)])
    /\ UNCHANGED <<environ, timestamp, response, homeworks, from_date, sleeps,
                   sent, last_cycle, critical, met, fetched>>

\* line 184: message = parse_status(homeworks[0])
ParseStatus ==
    /\ pc = "parse_status"
    /\ LET r == parse_status(homeworks[1])
       IN IF r.ok
          THEN /\ message' = r.value
               /\ pc' = "send_message"
               /\ UNCHANGED error
          ELSE /\ error' = Raised("parse_status", r)
               /\ pc' = "except"
               /\ UNCHANGED message
    /\ parsed' = Append(parsed, homeworks[1])
    /\ UNCHANGED <<environ, timestamp, response, homeworks, from_date, sleeps,
                   sent, last_cycle, critical, met, fetched>>

\* variant of SendStatus: a text is taken for sent as soon as it was
\* attempted, and a text equal to the last attempted one is not sent
SendStatus_RecordFirst ==
    /\ pc = "send_message"
    /\ IF message = last_cycle.text
       THEN /\ pc' = "advance"
            /\ UNCHANGED <<sent, error>>
       ELSE \E outcome \in SendOutcomes :
               LET r == send_message(outcome)
               IN /\ sent' = Append(sent, Call(message, "status", outcome))
                  /\ IF r.ok
                     THEN /\ pc' = "advance"
                          /\ UNCHANGED error
                     ELSE /\ error' = Raised("send_message", r)
                          /\ pc' = "except"
    /\ UNCHANGED <<environ, timestamp, response, homeworks, message, from_date,
                   sleeps, last_cycle, critical, met, fetched, parsed>>

\* line 185: send_message(bot, message)
SendStatus ==
    /\ pc = "send_message"
    /\ \E outcome \in SendOutcomes :
          LET r == send_message(outcome)
          IN /\ sent' = Append(sent, Call(message, "status", outcome))
             /\ IF r.ok
                THEN /\ pc' = "advance"
                     /\ UNCHANGED error
                ELSE /\ error' = Raised("send_message", r)
                     /\ pc' = "except"
    /\ UNCHANGED <<environ, timestamp, response, homeworks, message, from_date,
                   sleeps, last_cycle, critical, met, fetched, parsed>>

\* line 187: timestamp = response.get('current_date', timestamp)
Advance ==
    /\ pc = "advance"
    /\ timestamp' = CurrentDateOr(response, timestamp)
    /\ pc' = "finally"
    /\ UNCHANGED <<environ, response, homeworks, message, error, from_date,
                   sleeps, sent, last_cycle, critical, met, fetched, parsed>>

\* lines 189-190: the first except clause; it logs and sends nothing
ExceptTelegram ==
    /\ pc = "except"
    /\ CaughtByFirstClause(error.exc)
    /\ pc' = "finally"
    /\ UNCHANGED <<environ, timestamp, response, homeworks, message, error,
                   from_date, sleeps, sent, last_cycle, critical, met, fetched,
                   parsed>>

\* variant of ExceptException: the send of the failure message is not
\* under suppress(Exception), so what it raises ends main()
ExceptException_NoSuppress ==
    /\ pc = "except"
    /\ ~CaughtByFirstClause(error.exc)
    /\ IsSubclass(error.exc, "Exception")
    /\ message' = FailureMessage(error.text)
    /\ \E outcome \in SendOutcomes :
          /\ sent' = Append(sent, Call(message', "failure", outcome))
          /\ IF send_message(outcome).ok
             THEN pc' = "finally" /\ UNCHANGED error
             ELSE pc' = "exited" /\ error' = Raised("send_message", send_message(outcome))
    /\ UNCHANGED <<environ, timestamp, response, homeworks, from_date,
                   sleeps, last_cycle, critical, met, fetched, parsed>>

\* lines 192-197: the second except clause; it builds the failure message
\* and sends it, and suppress(Exception) drops what that send raises
ExceptException ==
    /\ pc = "except"
    /\ ~CaughtByFirstClause(error.exc)
    /\ IsSubclass(error.exc, "Exception")
    /\ message' = FailureMessage(error.text)
    /\ \E outcome \in SendOutcomes :
          sent' = Append(sent, Call(message', "failure", outcome))
    /\ pc' = "finally"
    /\ UNCHANGED <<environ, timestamp, response, homeworks, error, from_date,
                   sleeps, last_cycle, critical, met, fetched, parsed>>

\* variant of Finally: the timestamp is advanced in the finally clause,
\* that is after every cycle that has a response
Finally_Advance ==
    /\ pc = "finally"
    /\ sleeps' = Append(sleeps, RETRY_PERIOD)
    /\ pc' = "get_api_answer"
    /\ timestamp' = CurrentDateOr(response, timestamp)
    /\ last_cycle' = Summary(sent, error)
    /\ response' = NoPayload
    /\ homeworks' = <<>>
    /\ message' = <<>>
    /\ error' = NoRaise
    /\ sent' = <<>>
    /\ met' = NoHttp
    /\ fetched' = 0
    /\ parsed' = <<>>
    /\ UNCHANGED <<environ, from_date, critical>>

\* lines 199-200: time.sleep(RETRY_PERIOD), then the next iteration.
\* The cycle ends here: the next one assigns response, homeworks, message
\* and error before it reads them, so they are cleared, and the record of
\* the cycle's calls is folded into last_cycle and started afresh.
Finally ==
    /\ pc = "finally"
    /\ sleeps' = Append(sleeps, RETRY_PERIOD)
    /\ pc' = "get_api_answer"
    /\ last_cycle' = Summary(sent, error)
    /\ response' = NoPayload
    /\ homeworks' = <<>>
    /\ message' = <<>>
    /\ error' = NoRaise
    /\ sent' = <<>>
    /\ met' = NoHttp
    /\ fetched' = 0
    /\ parsed' = <<>>
    /\ UNCHANGED <<environ, timestamp, from_date, critical>>

Next ==
    \/ Start
    \/ GetApiAnswer
    \/ CheckResponse
    \/ ParseStatus
    \/ SendStatus
    \/ Advance
    \/ ExceptTelegram
    \/ ExceptException
    \/ Finally

Spec == Init /\ [][Next]_vars

(***************************************************************************)
(* Properties.                                                             *)
(***************************************************************************)
\* the functions whose failure the second except clause reports
Stages == {"get_api_answer", "check_response", "parse_status"}

\* the first homework of the cycle was turned into a text
Interpreted == homeworks # <<>> /\ error.by \notin Stages /\ message # <<>>

\* a first cycle has made its request and ended
CycleEnded == pc = "get_api_answer" /\ from_date # -1

\* C1: when two consecutive cycles interpret the same text and the first
\* cycle's send returned, the second cycle does not call the messaging
\* channel at all.
C1_NoRepeatedNotification ==
    (pc = "finally" /\ last_cycle.delivered /\ homeworks # <<>>
        /\ parse_status(homeworks[1]).ok
        /\ parse_status(homeworks[1]).value = last_cycle.text)
    => sent = <<>>

\* C2: a cycle in which get_api_answer, check_response or parse_status
\* raised calls send_message exactly once, with the failure message that
\* carries the error's text, goes on to the sleep, and the loop goes on.
C2_FailureContained ==
    /\ [](pc = "finally" /\ error.by \in Stages
            => /\ Len(sent) = 1
               /\ sent[1].at = "failure"
               /\ sent[1].text = <<"Program failure: ">> \o error.text
               /\ error.text # <<>>)
    /\ [][(error.by = "" /\ error'.by \in Stages => pc' = "except" /\ sent' = <<>>)
          /\ (pc = "except" => pc' = "finally")
          /\ (pc = "finally" => pc' = "get_api_answer"
                                /\ sleeps' = <<RETRY_PERIOD>>)]_vars

\* C2 witness: the payload {} was validated, the KeyError was reported once
C2_Witness ==
    /\ pc = "finally"
    /\ error.by = "check_response"
    /\ error.exc = "KeyError"
    /\ response = DictPayload(FALSE, [type |-> "NoneType", items |-> <<>>], FALSE, 0)
    /\ Len(sent) = 1
    /\ sent[1].at = "failure"

\* C3: a failed delivery of the status message (bot.send_message raising a
\* Telegram API error or a network error) is caught inside send_message and
\* never reaches the except clauses of the cycle.  send_message has no try
\* (lines 76-82): the exception reaches main(), which skips line 187.
C3_DeliveryFailureStaysInside ==
    ~(pc = "except" /\ error.by = "send_message")

\* C4: one sleep of RETRY_PERIOD, and only one, lies between a request and
\* the next one, whatever way the cycle ended.
C4_OneSleepBetweenFetches ==
    sleeps = IF CycleEnded THEN <<RETRY_PERIOD>> ELSE <<>>

\* C4 witness: a cycle with an empty list ended and slept once
C4_Witness ==
    /\ CycleEnded
    /\ last_cycle.by = ""
    /\ last_cycle.text = <<>>
    /\ sleeps = <<RETRY_PERIOD>>

\* C5 as stated: the from_date of a request is never smaller than the
\* from_date of the request before it.
C5_CheckpointNeverDecreases ==
    CycleEnded => timestamp >= from_date

\* C5 as amended: the timestamp decreases only when line 187 takes a
\* 'current_date' smaller than the timestamp from the response; when the
\* response has no 'current_date', or one that is not smaller, the next
\* from_date is not smaller than the previous one.
C5_DecreasesOnlyByCurrentDate ==
    [][pc # "main" /\ timestamp' < timestamp
         => /\ pc = "advance"
            /\ response.has_current_date
            /\ response.current_date < timestamp
            /\ timestamp' = response.current_date]_vars

\* C5 witness: a second request is about to be made after line 187 took
\* a larger 'current_date', and its from_date will be larger
C5_Witness ==
    /\ CycleEnded
    /\ last_cycle.by = ""
    /\ last_cycle.delivered
    /\ timestamp > from_date

\* C6: after a cycle in which get_api_answer, check_response or
\* parse_status raised, the next request carries the from_date of the
\* failed cycle's request.
C6_FailedCycleKeepsCheckpoint ==
    CycleEnded /\ last_cycle.by \in Stages => timestamp = from_date

\* C6 witness: parse_status raised in the cycle that ended
C6_Witness ==
    /\ CycleEnded
    /\ last_cycle.by = "parse_status"
    /\ timestamp = from_date

\* C7 as stated: after a cycle without error, a cycle with an empty list
\* included, the timestamp is the response's 'current_date' when there is
\* one, and the previous timestamp otherwise.
C7_AdvancesAfterEveryCleanCycle ==
    pc = "finally" /\ error.by = ""
    => timestamp = IF response.has_current_date
                   THEN response.current_date ELSE from_date

\* C7 as amended: after a cycle without error whose list is not empty, the
\* timestamp of the next request is the response's 'current_date' when
\* there is one and the previous timestamp otherwise; after a cycle whose
\* list is empty it is the previous timestamp.
C7_AdvancesAfterNotification ==
    /\ [](pc = "finally" /\ error.by = ""
            => timestamp = IF homeworks # <<>> /\ response.has_current_date
                           THEN response.current_date ELSE from_date)
    /\ [][pc = "finally" => timestamp' = timestamp /\ pc' = "get_api_answer"]_vars

\* C7 witness: a notification was sent and the timestamp moved to the
\* response's 'current_date'
C7_Witness ==
    /\ pc = "finally"
    /\ error.by = ""
    /\ homeworks # <<>>
    /\ response.has_current_date
    /\ response.current_date # from_date
    /\ timestamp = response.current_date

\* C8: a failed send suppresses nothing: when the previous cycle's send of
\* a status text raised and this cycle interprets the same text, this
\* cycle calls the messaging channel with that text again.
C8_FailedSendIsRetried ==
    (pc \in {"advance", "except", "finally"} /\ Interpreted
        /\ error.by \in {"", "send_message"}
        /\ last_cycle.text = parse_status(homeworks[1]).value
        /\ ~last_cycle.delivered)
    => /\ sent # <<>>
       /\ sent[1].at = "status"
       /\ sent[1].text = last_cycle.text

\* C8 witness: the text whose send raised in the previous cycle was sent
\* again in this one
C8_Witness ==
    /\ pc = "finally"
    /\ last_cycle.text # <<>>
    /\ ~last_cycle.delivered
    /\ sent # <<>>
    /\ sent[1].at = "status"
    /\ sent[1].text = last_cycle.text
    /\ sent[1].raised = ""

\* the names of the variables that are None or empty
MissingNames == {TOKENS[i] : i \in {j \in 1..Len(TOKENS) : environ[TOKENS[j]] \in {None, ""}}}

\* the token names a text has among its pieces
NamesIn(text) ==
    {text[i] : i \in 1..Len(text)} \cap {TOKENS[i] : i \in 1..Len(TOKENS)}

\* C9: with a token that is None or empty, main() ends by the uncaught
\* ValueError of check_tokens before any request, send or sleep, having
\* logged the missing names once; with the three tokens set it enters the
\* loop, and it never leaves the loop through that check.
C9_FailFastStartup ==
    /\ [](pc = "exited"
            => /\ MissingNames # {}
               /\ error.by = "check_tokens" /\ error.exc = "ValueError"
               /\ from_date = -1 /\ sent = <<>> /\ sleeps = <<>>
               /\ Len(critical) = 1
               /\ NamesIn(critical[1]) = MissingNames)
    /\ [](pc \notin {"main", "exited"} => MissingNames = {} /\ critical = <<>>)
    /\ [][(pc = "main" => pc' = IF MissingNames # {} THEN "exited"
                                ELSE "get_api_answer")
          /\ pc # "exited"]_vars

\* C9 witness: two tokens are missing, one None and one empty, and main()
\* has ended
C9_Witness ==
    /\ pc = "exited"
    /\ environ["PRACTICUM_TOKEN"] = "secret"
    /\ environ["TELEGRAM_CHAT_ID"] = ""
    /\ environ["TELEGRAM_TOKEN"] = None
    /\ Len(critical) = 1

\* C10: check_response returns the 'homeworks' list, as it is, exactly for
\* a dict that has the key with a list value; it raises for a payload that
\* is not a dict, for a dict without the key and for a value that is not
\* a list.
C10_CheckResponse ==
    (response # NoPayload /\ pc # "check_response")
    => IF response.type = "dict" /\ response.has_homeworks
          /\ response.homeworks.type = "list"
       THEN /\ error.by # "check_response"
            /\ homeworks = response.homeworks.items
       ELSE /\ error.by = "check_response"
            /\ error.exc = IF response.type = "dict" /\ ~response.has_homeworks
                           THEN "KeyError" ELSE "TypeError"
            /\ homeworks = <<>>

\* C10 witness: a list of two different homeworks was returned in order
C10_Witness ==
    /\ pc = "parse_status"
    /\ Len(homeworks) = 2
    /\ homeworks[1] # homeworks[2]
    /\ homeworks = response.homeworks.items

\* the first homework the cycle gave to parse_status is a dict with both
\* keys
ParsedBothKeys ==
    /\ parsed # <<>>
    /\ parsed[1].type = "dict"
    /\ parsed[1].has_homework_name
    /\ parsed[1].has_status

\* C11: for a homework that has both keys, parse_status returns the
\* template text with the homework's name and the phrase of its status
\* exactly when the status is approved, reviewing or rejected, and raises
\* the unknown-status error (ValueError) for any other status value.
C11_ParseStatusByStatus ==
    ParsedBothKeys
    => IF parsed[1].status \in {"approved", "reviewing", "rejected"}
       THEN /\ error.by # "parse_status"
            /\ pc = "send_message"
               => message = <<"Changed review status of work \"",
                              parsed[1].homework_name, "\". ",
                              HOMEWORK_VERDICTS(parsed[1].status)>>
       ELSE /\ error.by = "parse_status"
            /\ error.exc = "ValueError"

\* the response of the cycle was validated and its list is empty
ValidatedEmpty ==
    /\ pc # "check_response"
    /\ response.type = "dict"
    /\ response.has_homeworks
    /\ response.homeworks.type = "list"
    /\ response.homeworks.items = <<>>

\* C12: in a cycle whose response validates with an empty list,
\* parse_status is not called, send_message is not called, nothing raises,
\* and the cycle goes to the sleep and from there to the next request.
C12_EmptyListCycle ==
    /\ [](ValidatedEmpty
            => /\ pc = "finally"
               /\ parsed = <<>>
               /\ sent = <<>>
               /\ error = NoRaise)
    /\ [][ValidatedEmpty
            => /\ pc' = "get_api_answer"
               /\ sleeps' = <<RETRY_PERIOD>>
               /\ fetched' = 0]_vars

\* C12 witness: the payload {"homeworks": []} was validated and the cycle
\* is at its sleep
C12_Witness ==
    /\ pc = "finally"
    /\ response = DictPayload(TRUE, [type |-> "list", items |-> <<>>], FALSE, 0)
    /\ homeworks = <<>>
    /\ fetched = 1
    /\ sent = <<>>

\* C13: a cycle calls parse_status at most once, on the first homework of
\* the validated list, and sends at most one status message; what the cycle
\* does is what the first homework alone yields, whatever the other
\* homeworks are.
C13_OnlyFirstItem ==
    /\ Len(parsed) <= 1
    /\ Len(StatusCalls(sent)) <= 1
    /\ StatusCalls(sent) # <<>> => parsed # <<>>
    /\ parsed # <<>>
       => /\ response.homeworks.items # <<>>
          /\ parsed[1] = response.homeworks.items[1]
          /\ LET r == parse_status(response.homeworks.items[1])
             IN IF r.ok
                THEN /\ error.by # "parse_status"
                     /\ pc = "send_message" => message = r.value
                     /\ StatusCalls(sent) # <<>>
                        => StatusCalls(sent)[1].text = r.value
                ELSE /\ error = Raised("parse_status", r)
                     /\ StatusCalls(sent) = <<>>

\* C13 witness: the list has two homeworks, the second of which
\* parse_status would refuse; the first one was parsed and its text sent
C13_Witness ==
    /\ pc = "finally"
    /\ Len(homeworks) = 2
    /\ ~parse_status(homeworks[2]).ok
    /\ parsed = <<homeworks[1]>>
    /\ error = NoRaise
    /\ Len(sent) = 1
    /\ sent[1].text = parse_status(homeworks[1]).value

\* main() runs in one thread and no statement of the loop waits for
\* another party: each call returns or raises (requests.get, bot.send_message
\* and time.sleep are taken to end), so a statement that can run does run.
FairSpec == Spec /\ WF_vars(Next)

\* C14: no error of a cycle ends the loop: whatever raised in a cycle (the
\* request, the validation, the interpretation, the send of the status
\* message or the send of the failure message), the cycle ends and another
\* request is made; the process ends only by the error of check_tokens.
C14_LoopNeverEnds ==
    /\ [](pc = "exited" => error.by = "check_tokens" /\ fetched = 0 /\ from_date = -1)
    /\ (pc \notin {"main", "exited"}) ~> (pc = "get_api_answer")
    /\ (pc = "get_api_answer") ~> (fetched = 1)

\* C14 witness: parse_status raised, and the send of the failure message
\* raised too; the cycle is at its sleep
C14_Witness ==
    /\ pc = "finally"
    /\ error.by = "parse_status"
    /\ Len(sent) = 1
    /\ sent[1].at = "failure"
    /\ sent[1].raised = "RequestsConnectionError"

\* C15: get_api_answer is called once, and only once, between two sleeps,
\* whether it returns or raises; after a request that raised, the next
\* request is the one of the next cycle, after the sleep.
C15_OneFetchPerCycle ==
    /\ fetched = IF pc \in {"main", "exited", "get_api_answer"} THEN 0 ELSE 1
    /\ CycleEnded /\ last_cycle.by = "get_api_answer"
       => sleeps = <<RETRY_PERIOD>> /\ sent = <<>>

\* C15 witness: the request of the cycle raised, the cycle made that one
\* call and is at its sleep
C15_Witness ==
    /\ pc = "finally"
    /\ error.by = "get_api_answer"
    /\ error.exc = "ConnectionError"
    /\ met.raised
    /\ fetched = 1

\* the keys of parse_status that the homework does not have
AbsentKeys(homework) ==
    (IF homework.has_homework_name THEN {} ELSE {"homework_name"})
    \cup (IF homework.has_status THEN {} ELSE {"status"})

\* the pieces of a text
Pieces(text) == {text[i] : i \in 1..Len(text)}

\* C16: whenever the homework lacks 'homework_name' or 'status',
\* parse_status raises the missing-field error (KeyError), which names the
\* absent keys and no other, and not the unknown-status error.
C16_MissingKeysFirst ==
    (parsed # <<>> /\ parsed[1].type = "dict" /\ AbsentKeys(parsed[1]) # {})
    => /\ error.by = "parse_status"
       /\ error.exc = "KeyError"
       /\ Pieces(error.text) \cap {"homework_name", "status"} = AbsentKeys(parsed[1])

\* get_api_answer raised the exception of class cls in this cycle
FetchRaised(cls) == error.by = "get_api_answer" /\ error.exc = cls

\* C17 as stated: a request that could not be completed gives
\* ConnectionError, a completed one with a status other than 200 gives
\* StatusError, and a response with status 200 gives the decoded payload,
\* unvalidated.
C17_TwoFailureClasses ==
    fetched = 1
    => IF met.raised THEN FetchRaised("ConnectionError")
       ELSE IF met.status_code # 200 THEN FetchRaised("StatusError")
       ELSE error.by # "get_api_answer" /\ response = met.json

\* C17 as amended: a request that could not be completed gives
\* ConnectionError and a completed one with a status other than 200 gives
\* StatusError, two classes neither of which is a subclass of the other; a
\* response with status 200 whose body decodes gives the decoded payload,
\* whatever it is; a response with status 200 whose body does not decode
\* gives the error of response.json(), a third class.
C17_FailureClassesAndDecoding ==
    /\ ~IsSubclass("ConnectionError", "StatusError")
    /\ ~IsSubclass("StatusError", "ConnectionError")
    /\ fetched = 1
       => IF met.raised THEN FetchRaised("ConnectionError")
          ELSE IF met.status_code # 200 THEN FetchRaised("StatusError")
          ELSE IF met.decodes
          THEN error.by # "get_api_answer" /\ response = met.json
          ELSE FetchRaised("JSONDecodeError") /\ response = NoPayload

\* C17 witness: the response had status 200 and a body that is a JSON
\* list; get_api_answer returned it and check_response refused it
C17_Witness ==
    /\ pc = "except"
    /\ met.status_code = 200
    /\ met.decodes
    /\ response = met.json
    /\ response.type = "list"
    /\ error.by = "check_response"

\* C18: the timestamp changes only in a cycle whose send of the status
\* text returned; in a cycle with an empty list, with an error of the
\* request, the validation or the interpretation, or with a send that
\* raised, the timestamp stays what the cycle's request carried.
C18_AdvanceOnlyAfterDelivery ==
    /\ fetched = 1 /\ timestamp # from_date
       => /\ pc = "finally"
          /\ error = NoRaise
          /\ Len(sent) = 1
          /\ sent[1].at = "status"
          /\ sent[1].raised = ""
    /\ CycleEnded /\ timestamp # from_date
       => last_cycle.delivered /\ last_cycle.by = ""

\* C18 witness: the send of the status text raised a network error, the
\* failure message was sent, and the timestamp is the one of the request
\* although the response carried another date
C18_Witness ==
    /\ pc = "finally"
    /\ error.by = "send_message"
    /\ Len(sent) = 2
    /\ sent[1].raised = "RequestsConnectionError"
    /\ response.has_current_date
    /\ response.current_date # from_date
    /\ timestamp = from_date

\* the calls a cycle made from line 197
FailureCalls(calls) == SelectSeq(calls, LAMBDA c : c.at = "failure")

\* C19: a cycle calls send_message at most twice, never twice with a
\* status text and never twice with a failure message; a second call is the
\* failure message that follows a status send which raised something other
\* than the Telegram API exception.
C19_AtMostTwoSends ==
    /\ Len(sent) <= 2
    /\ Len(StatusCalls(sent)) <= 1
    /\ Len(FailureCalls(sent)) <= 1
    /\ Len(sent) = 2
       => /\ sent[1].at = "status"
          /\ sent[1].raised # ""
          /\ ~IsSubclass(sent[1].raised, "ApiException")
          /\ sent[2].at = "failure"
          /\ error.by = "send_message"

\* C19 witness: the status send raised a network error and the failure
\* message that followed was delivered
C19_Witness ==
    /\ pc = "finally"
    /\ Len(sent) = 2
    /\ sent[1].at = "status"
    /\ sent[1].raised = "RequestsConnectionError"
    /\ sent[2].at = "failure"
    /\ sent[2].raised = ""

\* C20: when the status send raises the Telegram API exception, the cycle
\* attempts no failure message and goes to the sleep; when it raises a
\* network error of requests, the first except clause does not take it
\* and the cycle attempts the failure message like for any other error.
C20_TelegramErrorOnlyLogged ==
    /\ [](pc = "finally" /\ error.by = "send_message"
            => IF IsSubclass(error.exc, "ApiException")
               THEN /\ Len(sent) = 1
                    /\ sent[1].at = "status"
               ELSE /\ IsSubclass(error.exc, "RequestException")
                    /\ Len(sent) = 2
                    /\ sent[2].at = "failure"
                    /\ sent[2].text = <<"Program failure: ">> \o error.text)
    /\ [][pc = "except" /\ error.by = "send_message"
            => /\ pc' = "finally"
               /\ IF error.exc = "ApiTelegramException"
                  THEN sent' = sent
                  ELSE Len(sent') = Len(sent) + 1]_vars

\* C20 witness: the status send raised the Telegram API exception and the
\* cycle is at its sleep with that one call made
C20_Witness ==
    /\ pc = "finally"
    /\ error.by = "send_message"
    /\ error.exc = "ApiTelegramException"
    /\ Len(sent) = 1
    /\ sent[1].at = "status"

=============================================================================
